---- MODULE Spec2Model ----
(***************************************************************************)
(* Model of TopazUpscaler (src/topaz_upscaler.py): one call of process,    *)
(* which encodes the input image into a temporary file, submits it         *)
(* (_submit_job), polls the job status (_wait_for_completion), downloads   *)
(* the result (_download_result) and decodes it.  Every HTTP request takes  *)
(* two steps: the request is made and its response, chosen by the remote   *)
(* side, is received into resp; then the response is handled.              *)
(***************************************************************************)
EXTENDS Integers, Sequences, FiniteSets, TLC

VARIABLES
    api_key,        \* argument of process, a sequence of characters
    mode,           \* argument of process
    model,          \* argument of process
    output_format,  \* argument of process
    timeout,        \* argument timeout_seconds of process
    w,              \* image.shape[2]
    h,              \* image.shape[1]
    scale2,         \* argument scale_multiplier, in halves (3 is 1.5)
    output_width,   \* argument of process, reassigned by the auto-scale
    output_height,  \* argument of process, reassigned by the auto-scale
    params,         \* the size entries of params; <<>> before it is built
    path,           \* path of _submit_job
    url,            \* url of _wait_for_completion / _download_result
    pc,             \* position of the call
    tmpExists,      \* the file of NamedTemporaryFile(delete=False) exists
    process_id,     \* process_id returned by _submit_job
    elapsed,        \* time.time() - start in _wait_for_completion, seconds
                    \* (0 outside of that function, where start does not exist)
    attempt,        \* loop variable of _download_result
    result_bytes,   \* content accepted by _download_result
    resp,           \* the response received and not yet handled
    outcome,        \* how the call ended: "Returned" or the error raised
    errMsg,         \* message of the error raised
    returned,       \* the bytes the returned image was decoded from
    nPost,          \* observer: submission POSTs issued
    nStatus,        \* observer: status queries issued
    nDl,            \* observer: requests to the download endpoint issued
    nFetch,         \* observer: requests to a secondary download_url issued
    faults,         \* observer: consecutive transport faults of status queries
    allPending,     \* observer: every status response so far was 200 and pending
    completedId,    \* observer: job id of the status URL that reported completed
    prevFaults,     \* observer: faults before the last status response handled
    all404          \* observer: every status response so far was a 404

vars == <<api_key, mode, model, output_format, timeout, w, h, scale2,
          output_width, output_height, params, path, url, pc, tmpExists,
          process_id, elapsed, attempt, result_bytes, resp, outcome, errMsg,
          returned, nPost, nStatus, nDl, nFetch, faults, allPending,
          completedId, prevFaults, all404>>

inputs == <<api_key, mode, model, output_format, timeout, w, h, scale2>>
sizes == <<output_width, output_height, params>>
observers == <<nPost, nStatus, nDl, nFetch, faults, allPending, completedId,
               prevFaults, all404>>

NoneVal == "<None>"

----------------------------------------------------------------------------
(* Module constants of the source.                                         *)

BASE_URL == "https://api.topazlabs.com/image/v1"

TOPAZ_MODES == {"enhance", "sharpen", "denoise", "restore", "lighting"}
ENHANCE_GAN_MODELS == {"Standard V2", "Low Resolution V2", "CGI", "High Fidelity V2", "Text Refine"}
ENHANCE_GEN_MODELS == {"Redefine", "Recovery V2", "Standard MAX", "Wonder"}
SHARPEN_GAN_MODELS == {"Standard", "Strong", "Lens Blur", "Lens Blur V2", "Motion Blur", "Natural", "Refocus"}
SHARPEN_GEN_MODELS == {"Super Focus V2"}
DENOISE_GAN_MODELS == {"Normal", "Strong", "Extreme"}
RESTORE_GEN_MODELS == {"Dust-Scratch"}
LIGHTING_GAN_MODELS == {"Adjust", "White Balance"}

FORMAT_MAGIC_JPEG == <<255, 216, 255>>
FORMAT_MAGIC_PNG == <<137, 80, 78, 71, 13, 10, 26, 10>>
FORMAT_MAGIC_TIFF == {<<73, 73, 42, 0>>, <<77, 77, 42, 0>>}

MaxAttempts == 8
MinDim == 64
MaxDim == 32000
NotProvisionedSleep == 5
PollSleep == 8

----------------------------------------------------------------------------
(* Bounds of the model.                                                    *)

MaxTimeout == 30
MaxReqDur == 1
FaultBound == 3
CounterCap == 12

----------------------------------------------------------------------------
(* Python's str and bytes operations, on sequences of characters / bytes.  *)

\* The characters str.strip() removes, among those a string here can hold:
\* U+0009..U+000D, U+001C..U+001F, the space, U+0085 and U+00A0.
Whitespace ==
    {"\t", "\n", "", "\f", "\r",
     "", "", "", "", " ", "", " "}

RECURSIVE LStrip(_)
LStrip(s) == IF s # <<>> /\ Head(s) \in Whitespace THEN LStrip(Tail(s)) ELSE s

RECURSIVE RStrip(_)
RStrip(s) ==
    IF s # <<>> /\ s[Len(s)] \in Whitespace
    THEN RStrip(SubSeq(s, 1, Len(s) - 1)) ELSE s

Strip(s) == RStrip(LStrip(s))

\* The letters str.lower() changes, A-Z and U+00C0..U+00DE without U+00D7,
\* and what it changes them to.
UpperChars == <<"A", "B", "C", "D", "E", "F", "G", "H", "I", "J", "K", "L", "M",
                "N", "O", "P", "Q", "R", "S", "T", "U", "V", "W", "X", "Y", "Z",
                "À", "Á", "Â", "Ã", "Ä", "Å", "Æ", "Ç", "È", "É", "Ê", "Ë", "Ì",
                "Í", "Î", "Ï", "Ð", "Ñ", "Ò", "Ó", "Ô", "Õ", "Ö", "Ø", "Ù", "Ú",
                "Û", "Ü", "Ý", "Þ">>
LowerChars == <<"a", "b", "c", "d", "e", "f", "g", "h", "i", "j", "k", "l", "m",
                "n", "o", "p", "q", "r", "s", "t", "u", "v", "w", "x", "y", "z",
                "à", "á", "â", "ã", "ä", "å", "æ", "ç", "è", "é", "ê", "ë", "ì",
                "í", "î", "ï", "ð", "ñ", "ò", "ó", "ô", "õ", "ö", "ø", "ù", "ú",
                "û", "ü", "ý", "þ">>

LowerChar(c) ==
    IF \E i \in 1..Len(UpperChars) : UpperChars[i] = c
    THEN LowerChars[CHOOSE i \in 1..Len(UpperChars) : UpperChars[i] = c]
    ELSE c

Lower(s) == [i \in 1..Len(s) |-> LowerChar(s[i])]

StartsWith(content, prefix) ==
    /\ Len(content) >= Len(prefix)
    /\ SubSeq(content, 1, Len(prefix)) = prefix

Slice4(content) ==
    SubSeq(content, 1, IF Len(content) < 4 THEN Len(content) ELSE 4)

Truthy(v) == v # NoneVal /\ v # ""

PyOr(a, b) == IF Truthy(a) THEN a ELSE b

RaiseForStatus(code) == code >= 400 /\ code < 600

----------------------------------------------------------------------------
(* Inputs of the call and responses of the remote API.                     *)

ApiKeys == {<<>>, <<" ", "\t">>, <<"\f", " ">>, <<" ", "k", "1", " ">>,
            <<"k", "1">>}

InputPairs ==
    {<<"enhance", "Standard V2">>, <<"sharpen", "Strong">>,
     <<"restore", "Dust-Scratch">>, <<"denoise", "Redefine">>,
     <<"enhance", "Bogus">>, <<"video", "Standard V2">>}

Formats == {"jpeg", "png", "tiff"}

Timeouts == {0, MaxTimeout \div 2, MaxTimeout}

Durations == 0..MaxReqDur

Payloads ==
    {<<255, 216, 255, 224, 0>>,                 \* JPEG
     <<137, 80, 78, 71, 13, 10, 26, 10, 0>>,   \* PNG
     <<73, 73, 42, 0, 8>>,                      \* TIFF, little endian
     <<77, 77, 42, 0, 0>>,                      \* TIFF, big endian
     <<60, 104, 116, 109, 108, 62>>,            \* "<html>"
     <<255, 216>>,                              \* truncated JPEG signature
     <<137, 80, 78, 71, 13, 10, 26>>,           \* truncated PNG signature
     <<73, 73, 42>>,                            \* truncated TIFF signature
     <<>>}

StatusValues ==
    {<<"c", "o", "m", "p", "l", "e", "t", "e", "d">>,
     <<"C", "o", "m", "p", "l", "e", "t", "e", "d">>,
     <<"C", "O", "M", "P", "L", "E", "T", "E", "D">>,
     <<" ", "c", "o", "m", "p", "l", "e", "t", "e", "d", "\n">>,
     <<"f", "a", "i", "l", "e", "d">>,
     <<"F", "a", "i", "l", "e", "d", " ">>,
     <<"p", "r", "o", "c", "e", "s", "s", "i", "n", "g">>,
     <<"c", "o", "m", "p", "l", "e", "t", "e">>,
     <<"\f", "C", "o", "m", "p", "l", "e", "t", "e", "d", " ">>,
     <<"C", "O", "M", "P", "L", "E", "T", "É">>}

Missing == <<"<missing>">>

NoResp == [kind |-> "none"]

\* requests.post of _submit_job: an exception, or a response with a status
\* code, a body that is JSON or not, its process_id field and the
\* X-Process-ID header.  The status codes are a success (200), a final
\* answer that is neither a success nor an error (300, with a body, and 304,
\* of which no body is ever read) and a client and a server error (402, 500).
SubmitResponses ==
    {[kind |-> "submit", exc |-> TRUE, code |-> 0, json |-> FALSE,
      body_pid |-> NoneVal, header_pid |-> NoneVal]}
    \cup [kind : {"submit"}, exc : {FALSE}, code : {300, 402, 500}, json : {TRUE},
          body_pid : {"job-A"}, header_pid : {NoneVal}]
    \cup [kind : {"submit"}, exc : {FALSE}, code : {304}, json : {FALSE},
          body_pid : {NoneVal}, header_pid : {NoneVal}]
    \cup [kind : {"submit"}, exc : {FALSE}, code : {200}, json : {FALSE},
          body_pid : {NoneVal}, header_pid : {"job-B"}]
    \cup [kind : {"submit"}, exc : {FALSE}, code : {200}, json : {TRUE},
          body_pid : {NoneVal, "", "job-A"}, header_pid : {NoneVal, "job-B"}]

\* requests.get of _wait_for_completion.
StatusResponses ==
    {[kind |-> "status", exc |-> TRUE, code |-> 0, json |-> FALSE,
      status |-> Missing, error |-> NoneVal]}
    \cup [kind : {"status"}, exc : {FALSE}, code : {404, 500}, json : {FALSE},
          status : {Missing}, error : {NoneVal}]
    \cup [kind : {"status"}, exc : {FALSE}, code : {200}, json : {FALSE},
          status : {Missing}, error : {NoneVal}]
    \cup [kind : {"status"}, exc : {FALSE}, code : {200}, json : {TRUE},
          status : StatusValues \cup {Missing}, error : {NoneVal, "E1"}]

\* requests.get(url) of _download_result: the request raises (fault
\* "connect": the connection is refused; fault "read": no answer within the
\* timeout of 30 s), or it is answered; the body is a JSON record with or
\* without download_url, or it is not JSON (content holds its bytes).
DownloadResponses ==
    [kind : {"download"}, exc : {TRUE}, fault : {"connect", "read"},
     code : {0}, json : {FALSE}, download_url : {NoneVal}, content : {<<>>}]
    \cup [kind : {"download"}, exc : {FALSE}, fault : {"none"},
          code : {404, 409, 500},
          json : {FALSE}, download_url : {NoneVal}, content : {<<>>}]
    \cup [kind : {"download"}, exc : {FALSE}, fault : {"none"},
          code : {200}, json : {TRUE},
          download_url : {NoneVal, "", "url-1"}, content : {<<>>}]
    \cup [kind : {"download"}, exc : {FALSE}, fault : {"none"},
          code : {200}, json : {FALSE},
          download_url : {NoneVal}, content : Payloads]

\* requests.get(dl_url) of _download_result.
FetchResponses ==
    {[kind |-> "fetch", exc |-> TRUE, code |-> 0, content |-> <<>>]}
    \cup [kind : {"fetch"}, exc : {FALSE}, code : {404, 500}, content : {<<>>}]
    \cup [kind : {"fetch"}, exc : {FALSE}, code : {200}, content : Payloads]

----------------------------------------------------------------------------
(* The functions of the source.                                            *)

InvalidCombination == "<ValueError: Invalid combination>"

\* get_submit_path looking the model up without regard to the mode
get_submit_path_ByModel(m, mdl) ==
    IF mdl \in ENHANCE_GEN_MODELS THEN "/enhance-gen/async"
    ELSE IF mdl \in ENHANCE_GAN_MODELS THEN "/enhance/async"
    ELSE IF mdl \in SHARPEN_GEN_MODELS THEN "/sharpen-gen/async"
    ELSE IF mdl \in SHARPEN_GAN_MODELS THEN "/sharpen/async"
    ELSE IF mdl \in DENOISE_GAN_MODELS THEN "/denoise/async"
    ELSE IF mdl \in RESTORE_GEN_MODELS THEN "/restore-gen/async"
    ELSE IF mdl \in LIGHTING_GAN_MODELS THEN "/lighting/async"
    ELSE InvalidCombination

\* _get_submit_path: the endpoint, or InvalidCombination when it raises.
get_submit_path(m, mdl) ==
    IF m = "enhance" /\ mdl \in ENHANCE_GEN_MODELS THEN "/enhance-gen/async"
    ELSE IF m = "enhance" /\ mdl \in ENHANCE_GAN_MODELS THEN "/enhance/async"
    ELSE IF m = "sharpen" /\ mdl \in SHARPEN_GEN_MODELS THEN "/sharpen-gen/async"
    ELSE IF m = "sharpen" /\ mdl \in SHARPEN_GAN_MODELS THEN "/sharpen/async"
    ELSE IF m = "denoise" /\ mdl \in DENOISE_GAN_MODELS THEN "/denoise/async"
    ELSE IF m = "restore" /\ mdl \in RESTORE_GEN_MODELS THEN "/restore-gen/async"
    ELSE IF m = "lighting" /\ mdl \in LIGHTING_GAN_MODELS THEN "/lighting/async"
    ELSE InvalidCombination

\* process, lines 206-207: max(64, min(32000, int(dim * scale_multiplier)));
\* int() truncates, and the product is exact for a multiplier in halves.
ScaledDim(dim, s2) ==
    LET t == (dim * s2) \div 2
        m == IF t < MaxDim THEN t ELSE MaxDim
    IN IF m > MinDim THEN m ELSE MinDim

\* process, lines 203-212: the output size after the auto-scale logic
NewSize(dim, s2, explicit) == IF s2 > 2 THEN ScaledDim(dim, s2) ELSE explicit

\* process, lines 223-226: the size entries of params
BuildParams(m, ow, oh) ==
    IF m = "enhance"
    THEN [k \in ((IF ow # 0 THEN {"output_width"} ELSE {})
                 \cup (IF oh # 0 THEN {"output_height"} ELSE {}))
            |-> IF k = "output_width" THEN ow ELSE oh]
    ELSE <<>>

\* requests.post, line 115: requests accepts the value of a header when it
\* is empty or begins with a character that is no white space and holds
\* neither a carriage return nor a line feed; otherwise it raises
\* InvalidHeader while it prepares the request, before anything is sent.
HeaderValueValid(v) ==
    \/ v = <<>>
    \/ /\ Head(v) \notin Whitespace
       /\ \A i \in 1..Len(v) : v[i] \notin {"\r", "\n"}

\* process, line 197: not api_key.strip()
ApiKeyMissing(k) == Strip(k) = <<>>

\* _submit_job after requests.post: "ok", or the error raised.
SubmitResult(r) ==
    IF r.exc THEN "SubmitTransportError"
    ELSE IF RaiseForStatus(r.code) THEN "SubmitHTTPError"
    ELSE IF ~r.json THEN "SubmitJSONError"
    ELSE IF ~Truthy(PyOr(r.body_pid, r.header_pid)) THEN "ValueError:no_process_id"
    ELSE "ok"

\* _submit_job, line 120
ExtractProcessId(r) == PyOr(r.body_pid, r.header_pid)

\* LoopCond with the deadline itself still inside the loop
LoopCond_Inclusive(e, t) == e <= t

\* _wait_for_completion, line 131: the loop condition
LoopCond(e, t) == e < t

\* StatusField without the lower-casing
StatusField_CaseSensitive(r) == Strip(IF r.status = Missing THEN <<>> ELSE r.status)

\* status.get("status", "").strip().lower()
StatusField(r) == Lower(Strip(IF r.status = Missing THEN <<>> ELSE r.status))

\* StatusTry without the 404 branch: raise_for_status raises on a 404
StatusTry_404Raises(r) ==
    IF r.exc THEN "raise"
    ELSE IF RaiseForStatus(r.code) THEN "raise"
    ELSE IF ~r.json THEN "raise"
    ELSE IF StatusField(r) = <<"c", "o", "m", "p", "l", "e", "t", "e", "d">> THEN "return"
    ELSE IF StatusField(r) = <<"f", "a", "i", "l", "e", "d">> THEN "raise"
    ELSE "fallthrough"

\* The body of the try of _wait_for_completion: "continue" (404), "return",
\* "raise" (an exception leaves the try body) or "fallthrough".
StatusTry(r) ==
    IF r.exc THEN "raise"
    ELSE IF r.code = 404 THEN "continue"
    ELSE IF RaiseForStatus(r.code) THEN "raise"
    ELSE IF ~r.json THEN "raise"
    ELSE IF StatusField(r) = <<"c", "o", "m", "p", "l", "e", "t", "e", "d">> THEN "return"
    ELSE IF StatusField(r) = <<"f", "a", "i", "l", "e", "d">> THEN "raise"
    ELSE "fallthrough"

\* StatusStep returning for every status but "failed"
StatusStep_ReturnUnlessFailed(r) ==
    CASE StatusTry(r) = "continue" -> "sleep5"
      [] StatusTry(r) = "return" -> "return"
      [] StatusTry(r) = "raise" -> "sleep8"
      [] OTHER -> "return"

\* StatusStep with an except clause that ends the wait
StatusStep_ExceptReturns(r) ==
    CASE StatusTry(r) = "continue" -> "sleep5"
      [] StatusTry(r) = "return" -> "return"
      [] StatusTry(r) = "raise" -> "return"
      [] OTHER -> "sleep8"

\* One iteration of the loop of _wait_for_completion after the request:
\* every exception raised in the try body, the "Job failed" one included, is
\* caught by `except Exception` (line 147), printed, and followed by the
\* sleep of line 149.
StatusStep(r) ==
    CASE StatusTry(r) = "continue" -> "sleep5"
      [] StatusTry(r) = "return" -> "return"
      [] StatusTry(r) = "raise" -> "sleep8"
      [] OTHER -> "sleep8"

\* _download_result, lines 175-184: the content passes the format check
ValidContent(fmt, content) ==
    \/ fmt = "jpeg" /\ StartsWith(content, FORMAT_MAGIC_JPEG)
    \/ fmt = "png" /\ StartsWith(content, FORMAT_MAGIC_PNG)
    \/ fmt = "tiff" /\ Slice4(content) \in FORMAT_MAGIC_TIFF

\* _download_result, lines 158-168: "retry" (409), "fetch" (the download_url
\* is requested) or the error raised.
DownloadResult(r) ==
    IF r.exc THEN "DownloadTransportError"
    ELSE IF r.code = 409 THEN "retry"
    ELSE IF RaiseForStatus(r.code) THEN "DownloadHTTPError"
    ELSE IF ~r.json THEN "DownloadJSONError"
    ELSE IF ~Truthy(r.download_url) THEN "ValueError:no_download_url"
    ELSE "fetch"

\* _download_result, lines 170-187: "accept", "retry" or the error raised.
FetchResult(fmt, r) ==
    IF r.exc THEN "FetchTransportError"
    ELSE IF RaiseForStatus(r.code) THEN "FetchHTTPError"
    ELSE IF ValidContent(fmt, r.content) THEN "accept"
    ELSE "retry"

\* NextAttempt that does not advance
NextAttempt_Stuck(a) == a

\* _download_result, line 157: the loop variable of the next attempt
NextAttempt(a) == a + 1

\* A request counter; it stops counting at CounterCap.
Inc(n) == IF n < CounterCap THEN n + 1 ELSE n

\* AttemptsLeft allowing one attempt more
AttemptsLeft_OneMore(a) == a <= MaxAttempts

\* _download_result, line 157: range(8) has another attempt
AttemptsLeft(a) == a < MaxAttempts

\* process, lines 263-265: the finally clause unlinks the file if it exists
FinallyUnlink(exists) == FALSE

\* Response.reason of the status codes the responses here have
Reason(code) ==
    CASE code = 300 -> "Multiple Choices"
      [] code = 304 -> "Not Modified"
      [] code = 402 -> "Payment Required"
      [] code = 404 -> "Not Found"
      [] code = 409 -> "Conflict"
      [] code = 500 -> "Internal Server Error"
      [] OTHER -> ""

\* The message of the HTTPError of raise_for_status for the URL u
HTTPErrorMessage(code, u) ==
    <<ToString(code),
      IF code < 500 THEN " Client Error: " ELSE " Server Error: ",
      Reason(code), " for url: ">> \o u

\* The message of the error e, as the fragments it is formatted from.
ErrorMessage(e) ==
    CASE e = "ValueError:api_key" -> <<"Topaz API key required">>
      [] e = "ValueError:combination" ->
           <<"Invalid combination: mode='", mode, "', model='", model, "'">>
      [] e = "ValueError:no_process_id" -> <<"No process_id returned">>
      [] e = "TimeoutError" -> <<"Timed out after ", ToString(timeout), "s">>
      [] e = "ValueError:no_download_url" -> <<"No download_url received">>
      [] e = "Exception:download_retries" -> <<"Failed to download valid image after retries">>
      [] e = "SubmitHTTPError" -> HTTPErrorMessage(resp.code, <<BASE_URL, path>>)
      [] e = "DownloadHTTPError" ->
           HTTPErrorMessage(resp.code, <<BASE_URL, url[1], url[2]>>)
      [] e = "FetchHTTPError" -> HTTPErrorMessage(resp.code, <<"url-1">>)
      [] e = "DownloadTransportError" ->
           IF resp.fault = "connect"
           THEN <<"HTTPSConnectionPool(host='api.topazlabs.com', port=443): Max retries exceeded with url: ",
                  "/image/v1", url[1], url[2],
                  " (Caused by NewConnectionError('<HTTPSConnection>: Failed to establish a new connection: [Errno 111] Connection refused'))">>
           ELSE <<"HTTPSConnectionPool(host='api.topazlabs.com', port=443): Read timed out. (read timeout=30)">>
      [] e \in {"SubmitJSONError", "DownloadJSONError"} ->
           <<"Expecting value: line 1 column 1 (char 0)">>
      [] OTHER -> <<e>>

----------------------------------------------------------------------------
(* What a response says, as the remote API means it; the observers and the *)
(* properties below are stated with these.                                 *)

CompletedWords ==
    {<<"c", "o", "m", "p", "l", "e", "t", "e", "d">>,
     <<"C", "o", "m", "p", "l", "e", "t", "e", "d">>,
     <<"C", "O", "M", "P", "L", "E", "T", "E", "D">>,
     <<" ", "c", "o", "m", "p", "l", "e", "t", "e", "d", "\n">>,
     <<"\f", "C", "o", "m", "p", "l", "e", "t", "e", "d", " ">>}

FailedWords ==
    {<<"f", "a", "i", "l", "e", "d">>, <<"F", "a", "i", "l", "e", "d", " ">>}

StatusAnswered(r) == ~r.exc /\ r.code = 200 /\ r.json

ReportsCompleted(r) == StatusAnswered(r) /\ r.status \in CompletedWords

ReportsFailed(r) == StatusAnswered(r) /\ r.status \in FailedWords

ReportsPending(r) ==
    StatusAnswered(r) /\ r.status \notin CompletedWords \cup FailedWords

\* The bytes start with a signature of the format.
HasMagic(fmt, bytes) ==
    LET sigs == CASE fmt = "jpeg" -> {FORMAT_MAGIC_JPEG}
                  [] fmt = "png" -> {FORMAT_MAGIC_PNG}
                  [] fmt = "tiff" -> FORMAT_MAGIC_TIFF
    IN \E sig \in sigs :
         /\ Len(bytes) >= Len(sig)
         /\ \A i \in 1..Len(sig) : bytes[i] = sig[i]

\* The allow-lists of a mode.
AllowLists(m) ==
    CASE m = "enhance" -> ENHANCE_GAN_MODELS \cup ENHANCE_GEN_MODELS
      [] m = "sharpen" -> SHARPEN_GAN_MODELS \cup SHARPEN_GEN_MODELS
      [] m = "denoise" -> DENOISE_GAN_MODELS
      [] m = "restore" -> RESTORE_GEN_MODELS
      [] m = "lighting" -> LIGHTING_GAN_MODELS
      [] OTHER -> {}

BlankKey == \A i \in 1..Len(api_key) : api_key[i] \in Whitespace

BadPair == model \notin AllowLists(mode)

NoRequestIssued == nPost = 0 /\ nStatus = 0 /\ nDl = 0 /\ nFetch = 0

----------------------------------------------------------------------------
(* The call of process as a state machine.                                 *)

\* The locals of the call and the observers, before anything is done.
InitLocals ==
    /\ path = NoneVal
    /\ url = <<>>
    /\ process_id = NoneVal
    /\ elapsed = 0
    /\ attempt = 0
    /\ result_bytes = <<>>
    /\ resp = NoResp
    /\ outcome = "none"
    /\ errMsg = <<>>
    /\ returned = <<>>
    /\ nPost = 0 /\ nStatus = 0 /\ nDl = 0 /\ nFetch = 0
    /\ faults = 0
    /\ allPending = TRUE
    /\ completedId = NoneVal
    /\ prevFaults = 0
    /\ all404 = TRUE

\* A call of process: the size arguments are those of a 100x200 image
\* scaled by 2.0, the other arguments are drawn from the input sets.
Init ==
    /\ api_key \in ApiKeys
    /\ \E p \in InputPairs : mode = p[1] /\ model = p[2]
    /\ output_format \in Formats
    /\ timeout \in Timeouts
    /\ w = 100 /\ h = 200 /\ scale2 = 4
    /\ output_width = 0 /\ output_height = 0
    /\ pc = "start"
    /\ tmpExists = FALSE
    /\ params = <<>>
    /\ InitLocals

\* An exception leaves process before its try statement (lines 197-240).
RaiseBeforeTry(e) ==
    /\ pc' = "done"
    /\ outcome' = e
    /\ errMsg' = ErrorMessage(e)
    /\ resp' = NoResp

\* An exception leaves the try statement of process: the finally clause runs.
RaiseInTry(e) ==
    /\ pc' = "done"
    /\ outcome' = e
    /\ errMsg' = ErrorMessage(e)
    /\ resp' = NoResp
    /\ tmpExists' = FinallyUnlink(tmpExists)

\* process, lines 197-240: the key check, then the input image is encoded
\* into a NamedTemporaryFile(delete=False); pil_img.save may raise.
ProcessStart ==
    /\ pc = "start"
    /\ IF ApiKeyMissing(api_key)
       THEN RaiseBeforeTry("ValueError:api_key") /\ UNCHANGED <<tmpExists, sizes>>
       ELSE \E saved \in BOOLEAN :
              /\ output_width' = NewSize(w, scale2, output_width)
              /\ output_height' = NewSize(h, scale2, output_height)
              /\ params' = BuildParams(mode, NewSize(w, scale2, output_width),
                                       NewSize(h, scale2, output_height))
              /\ tmpExists' = TRUE
              /\ IF saved
                 THEN /\ pc' = "submit"
                      /\ UNCHANGED <<outcome, errMsg, resp>>
                 ELSE RaiseBeforeTry("SaveError")
    /\ UNCHANGED <<inputs, observers, process_id, elapsed, attempt,
                   result_bytes, returned, path, url>>

\* _submit_job, lines 110-115: the path is resolved, then the POST is made
\* with api_key, unstripped, as the value of the X-API-Key header; a value
\* requests rejects makes requests.post raise with no request sent.
SubmitJob ==
    /\ pc = "submit"
    /\ IF get_submit_path(mode, model) = InvalidCombination
       THEN /\ RaiseInTry("ValueError:combination")
            /\ UNCHANGED <<nPost, path>>
       ELSE IF ~HeaderValueValid(api_key)
       THEN /\ path' = get_submit_path(mode, model)
            /\ RaiseInTry("SubmitTransportError")
            /\ UNCHANGED nPost
       ELSE /\ path' = get_submit_path(mode, model)
            /\ nPost' = Inc(nPost)
            /\ \E r \in SubmitResponses : resp' = r
            /\ pc' = "post_got"
            /\ UNCHANGED <<outcome, errMsg, tmpExists>>
    /\ UNCHANGED <<inputs, sizes, url, process_id, elapsed, attempt,
                   result_bytes, returned, nStatus, nDl, nFetch, faults,
                   allPending, completedId, prevFaults, all404>>

\* _submit_job, lines 116-123, and the entry of _wait_for_completion.
HandleSubmitResponse ==
    /\ pc = "post_got"
    /\ IF SubmitResult(resp) = "ok"
       THEN /\ process_id' = ExtractProcessId(resp)
            /\ url' = <<"/status/", ExtractProcessId(resp)>>
            /\ pc' = "wait"
            /\ elapsed' = 0
            /\ resp' = NoResp
            /\ UNCHANGED <<outcome, errMsg, tmpExists>>
       ELSE /\ RaiseInTry(SubmitResult(resp))
            /\ UNCHANGED <<process_id, elapsed, url>>
    /\ UNCHANGED <<inputs, sizes, path, observers, attempt, result_bytes,
                   returned>>

\* _wait_for_completion, lines 131-133 and 150: the loop condition, then the
\* status query and its response, or TimeoutError.
WaitLoop ==
    /\ pc = "wait"
    /\ IF LoopCond(elapsed, timeout)
       THEN /\ nStatus' = Inc(nStatus)
            /\ \E r \in StatusResponses, d \in Durations :
                 /\ resp' = r
                 /\ elapsed' = elapsed + d
            /\ pc' = "status_got"
            /\ UNCHANGED <<outcome, errMsg, tmpExists>>
       ELSE /\ RaiseInTry("TimeoutError")
            /\ UNCHANGED <<nStatus, elapsed>>
    /\ UNCHANGED <<inputs, sizes, path, url, process_id, attempt,
                   result_bytes, returned, nPost, nDl, nFetch, faults,
                   allPending, completedId, prevFaults, all404>>

\* _wait_for_completion, lines 134-149: the response is handled.
HandleStatusResponse ==
    /\ pc = "status_got"
    /\ CASE StatusStep(resp) = "return" ->
              /\ pc' = "dl_loop"
              /\ url' = <<"/download/", process_id>>
              /\ attempt' = 0
              /\ elapsed' = 0
              /\ prevFaults' = 0
         [] StatusStep(resp) = "sleep5" ->
              /\ pc' = "wait"
              /\ elapsed' = elapsed + NotProvisionedSleep
              /\ prevFaults' = faults
              /\ UNCHANGED <<attempt, url>>
         [] OTHER ->
              /\ pc' = "wait"
              /\ elapsed' = elapsed + PollSleep
              /\ prevFaults' = faults
              /\ UNCHANGED <<attempt, url>>
    /\ resp' = NoResp
    /\ faults' = IF resp.exc THEN faults + 1 ELSE 0
    /\ allPending' = (allPending /\ ReportsPending(resp))
    /\ completedId' = IF ReportsCompleted(resp) THEN process_id ELSE completedId
    /\ all404' = (all404 /\ ~resp.exc /\ resp.code = 404)
    /\ UNCHANGED <<inputs, sizes, path, tmpExists, process_id, result_bytes,
                   outcome, errMsg, returned, nPost, nStatus, nDl, nFetch>>

\* _download_result, lines 157-158 and 189: the next attempt requests the
\* download endpoint, or the attempts are exhausted.
DownloadLoop ==
    /\ pc = "dl_loop"
    /\ IF AttemptsLeft(attempt)
       THEN /\ nDl' = Inc(nDl)
            /\ \E r \in DownloadResponses : resp' = r
            /\ pc' = "download_got"
            /\ UNCHANGED <<outcome, errMsg, tmpExists>>
       ELSE /\ RaiseInTry("Exception:download_retries")
            /\ UNCHANGED nDl
    /\ UNCHANGED <<inputs, sizes, path, url, process_id, elapsed, attempt,
                   result_bytes, returned, nPost, nStatus, nFetch, faults,
                   allPending, completedId, prevFaults, all404>>

\* _download_result, lines 161-170: the response of the download endpoint is
\* handled and, when it holds a download_url, that URL is requested.
HandleDownloadResponse ==
    /\ pc = "download_got"
    /\ CASE DownloadResult(resp) = "retry" ->
              /\ attempt' = NextAttempt(attempt)
              /\ pc' = "dl_loop"
              /\ resp' = NoResp
              /\ UNCHANGED <<outcome, errMsg, tmpExists, nFetch>>
         [] DownloadResult(resp) = "fetch" ->
              /\ nFetch' = Inc(nFetch)
              /\ \E r \in FetchResponses : resp' = r
              /\ pc' = "fetch_got"
              /\ UNCHANGED <<outcome, errMsg, tmpExists, attempt>>
         [] OTHER ->
              /\ RaiseInTry(DownloadResult(resp))
              /\ UNCHANGED <<attempt, nFetch>>
    /\ UNCHANGED <<inputs, sizes, path, url, process_id, elapsed,
                   result_bytes, returned, nPost, nStatus, nDl, faults,
                   allPending, completedId, prevFaults, all404>>

\* _download_result, lines 171-187: the fetched content is validated.
HandleFetchResponse ==
    /\ pc = "fetch_got"
    /\ CASE FetchResult(output_format, resp) = "accept" ->
              /\ result_bytes' = resp.content
              /\ pc' = "decode"
              /\ resp' = NoResp
              /\ UNCHANGED <<outcome, errMsg, tmpExists, attempt>>
         [] FetchResult(output_format, resp) = "retry" ->
              /\ attempt' = NextAttempt(attempt)
              /\ pc' = "dl_loop"
              /\ resp' = NoResp
              /\ UNCHANGED <<outcome, errMsg, tmpExists, result_bytes>>
         [] OTHER ->
              /\ RaiseInTry(FetchResult(output_format, resp))
              /\ UNCHANGED <<attempt, result_bytes>>
    /\ UNCHANGED <<inputs, sizes, path, url, observers, process_id, elapsed,
                   returned>>

\* process, lines 252-265: Image.open and the conversion may raise; the
\* finally clause runs on both paths.
DecodeResult ==
    /\ pc = "decode"
    /\ \E decoded \in BOOLEAN :
         IF decoded
         THEN /\ pc' = "done"
              /\ outcome' = "Returned"
              /\ returned' = result_bytes
              /\ tmpExists' = FinallyUnlink(tmpExists)
              /\ UNCHANGED <<errMsg, resp>>
         ELSE /\ RaiseInTry("DecodeError")
              /\ UNCHANGED returned
    /\ UNCHANGED <<inputs, sizes, path, url, observers, process_id, elapsed,
                   attempt, result_bytes>>

Next ==
    \/ ProcessStart
    \/ SubmitJob
    \/ HandleSubmitResponse
    \/ WaitLoop
    \/ HandleStatusResponse
    \/ DownloadLoop
    \/ HandleDownloadResponse
    \/ HandleFetchResponse
    \/ DecodeResult

Spec == Init /\ [][Next]_vars

\* A call of process with valid arguments, with a key that is no header
\* value, or with an invalid pair, under every sequence of remote responses.
InitTerm ==
    /\ api_key \in {<<"k", "1">>, <<" ", "k", "1", " ">>}
    /\ \E p \in {<<"enhance", "Standard V2">>, <<"enhance", "Bogus">>} :
         mode = p[1] /\ model = p[2]
    /\ output_format = "jpeg"
    /\ timeout \in Timeouts \ {MaxTimeout}
    /\ w = 100 /\ h = 200 /\ scale2 = 4
    /\ output_width = 0 /\ output_height = 0
    /\ pc = "start"
    /\ tmpExists = FALSE
    /\ params = <<>>
    /\ InitLocals

\* Every request returns or raises and every sleep ends, so a call that can
\* take a step eventually takes one.
FairSpec == InitTerm /\ [][Next]_vars /\ WF_vars(Next)

----------------------------------------------------------------------------
(* The size logic of process on a range of image sizes, multipliers and    *)
(* explicit sizes: the call runs up to the saving of its input.            *)

DimInputs == {10, 101, 250, 20000}

Scale2Inputs == {1, 2, 3, 4, 5, 8}

InitDims ==
    /\ api_key = <<"k", "1">>
    /\ mode \in {"enhance", "sharpen"}
    /\ model = "Standard V2"
    /\ output_format = "jpeg"
    /\ timeout = MaxTimeout
    /\ w \in DimInputs /\ h \in DimInputs
    /\ scale2 \in Scale2Inputs
    /\ output_width \in {0, 640} /\ output_height \in {0, 448}
    /\ pc = "start"
    /\ tmpExists = FALSE
    /\ params = <<>>
    /\ InitLocals

NextDims == ProcessStart

SpecDims == InitDims /\ [][NextDims]_vars

----------------------------------------------------------------------------
(* _submit_job on every mode and model: the call has passed the key check  *)
(* and saved its input, and resolves the path of any (mode, model).        *)

AllModes == TOPAZ_MODES \cup {"video"}

AllModels ==
    ENHANCE_GAN_MODELS \cup ENHANCE_GEN_MODELS \cup SHARPEN_GAN_MODELS
    \cup SHARPEN_GEN_MODELS \cup DENOISE_GAN_MODELS \cup RESTORE_GEN_MODELS
    \cup LIGHTING_GAN_MODELS \cup {"Bogus"}

InitRoute ==
    /\ api_key = <<"k", "1">>
    /\ mode \in AllModes
    /\ model \in AllModels
    /\ output_format = "jpeg"
    /\ timeout = MaxTimeout
    /\ w = 100 /\ h = 200 /\ scale2 = 4
    /\ output_width = ScaledDim(100, 4) /\ output_height = ScaledDim(200, 4)
    /\ pc = "submit"
    /\ tmpExists = TRUE
    /\ InitLocals
    /\ params = BuildParams(mode, output_width, output_height)

NextRoute == SubmitJob

SpecRoute == InitRoute /\ [][NextRoute]_vars

----------------------------------------------------------------------------
(* Properties.                                                             *)

\* C1: in _download_result a payload received with HTTP 200 that does not
\* start with the signature of output_format is never returned and makes the
\* loop go to its next attempt, whether it is the content fetched from a
\* download_url or the body of the download endpoint's own answer (a body
\* that is no record with a download_url); once the 8 attempts are used up
\* the call raises "Failed to download valid image after retries"; the bytes
\* of a returned image always start with the signature.
C1_InvalidPayloadNeverReturned ==
    [][ /\ (pc = "fetch_got" /\ ~resp.exc /\ resp.code = 200
               /\ ~HasMagic(output_format, resp.content))
           => (pc' = "dl_loop" /\ attempt' = attempt + 1 /\ outcome' = "none")
        /\ (pc = "download_got" /\ ~resp.exc /\ resp.code = 200
               /\ ~(resp.json /\ Truthy(resp.download_url))
               /\ ~HasMagic(output_format, resp.content))
           => (pc' = "dl_loop" /\ attempt' = attempt + 1 /\ outcome' = "none")
        /\ (pc = "dl_loop" /\ attempt < MaxAttempts)
           => (pc' = "download_got" /\ nDl' = nDl + 1)
        /\ (pc = "dl_loop" /\ attempt >= MaxAttempts)
           => (pc' = "done" /\ outcome' = "Exception:download_retries")
        /\ (pc' = "decode" => HasMagic(output_format, result_bytes'))
        /\ (outcome' = "Returned" => HasMagic(output_format, returned'))
      ]_vars

\* C2: a status response reporting `failed` ends the call at once with an
\* error that carries the error message of the API.
C2_FailedIsTerminal ==
    [][ (pc = "status_got" /\ ReportsFailed(resp))
        => /\ pc' = "done"
           /\ outcome' \notin {"none", "Returned", "TimeoutError"}
           /\ nStatus' = nStatus
           /\ (resp.error # NoneVal =>
                 \E i \in 1..Len(errMsg') : errMsg'[i] = resp.error)
      ]_vars

\* C3: once FaultBound consecutive status queries have ended in a transport
\* exception, the call has failed with a status-check failure.
C3_BoundedConsecutiveFaults ==
    faults >= FaultBound => (pc = "done" /\ outcome = "StatusCheckFailed")

\* C4: when every status query was answered 200 with a pending status, the
\* wait goes on or ends in TimeoutError with the timeout elapsed; it ends in
\* no other error and never in success.
C4_PendingUntilDeadlineIsTimeout ==
    (process_id # NoneVal /\ allPending)
    => /\ pc \in {"wait", "status_got", "done"}
       /\ (pc = "done" => outcome = "TimeoutError" /\ elapsed >= timeout)

\* C4 witness: several status queries, all pending, then TimeoutError.
C4_Witness ==
    /\ pc = "done" /\ outcome = "TimeoutError"
    /\ allPending /\ nStatus >= 2

\* C5: at most one submission POST is issued, and a POST that raised or was
\* answered with a non-2xx status ends the call with an error and with no
\* further request.
C5_SubmitNeverRepeated ==
    [][ /\ nPost' <= 1
        /\ (pc = "post_got" /\ (resp.exc \/ resp.code \notin 200..299))
           => /\ pc' = "done"
              /\ outcome' \notin {"none", "Returned"}
              /\ nPost' = 1 /\ nStatus' = 0 /\ nDl' = 0 /\ nFetch' = 0
      ]_vars

\* C6: a status query is issued only with the job id of a successful
\* submission, the download endpoint is requested only after a status query
\* for that job id reported completed, a download_url only after the
\* download endpoint, a result is returned only from a validated download,
\* and after the first download request no POST and no status query follow.
C6_StagesInOrder ==
    [][ /\ (nStatus' > nStatus => (nPost = 1 /\ Truthy(process_id)))
        /\ (nDl' > nDl => (Truthy(process_id) /\ completedId = process_id))
        /\ (nFetch' > nFetch => nDl > nFetch)
        /\ (outcome' = "Returned"
              => (nFetch > 0 /\ HasMagic(output_format, returned')))
        /\ (nDl > 0 => (nPost' = nPost /\ nStatus' = nStatus))
      ]_vars

\* C6 witness: a call that went through all the stages and returned.
C6_Witness ==
    /\ pc = "done" /\ outcome = "Returned"
    /\ nPost = 1 /\ nStatus >= 2 /\ nDl >= 1 /\ nFetch >= 1
    /\ completedId = process_id

\* C7: when the call has ended, the temporary file does not exist.
C7_TempFileReleased == pc = "done" => ~tmpExists

\* C8: a 404 and a 409 answer of the download endpoint both make
\* _download_result go to its next attempt instead of failing.
C8_NotReadyIsRetried ==
    [][ (pc = "download_got" /\ ~resp.exc /\ resp.code \in {404, 409})
        => (pc' = "dl_loop" /\ attempt' = attempt + 1 /\ outcome' = "none")
      ]_vars

\* C9: (a) a 200 answer of the download endpoint whose body is the image
\* itself, with a valid signature, is accepted as the result; (b) a 200
\* answer that is a record with a download_url makes that URL be requested,
\* and a valid content fetched from it is accepted as the result.
C9_BothResponseShapes ==
    [][ /\ (pc = "download_got" /\ ~resp.exc /\ resp.code = 200 /\ ~resp.json
               /\ HasMagic(output_format, resp.content))
           => (pc' = "decode" /\ result_bytes' = resp.content)
        /\ (pc = "download_got" /\ ~resp.exc /\ resp.code = 200 /\ resp.json
               /\ Truthy(resp.download_url))
           => (pc' = "fetch_got" /\ nFetch' = nFetch + 1)
        /\ (pc = "fetch_got" /\ ~resp.exc /\ resp.code = 200
               /\ HasMagic(output_format, resp.content))
           => (pc' = "decode" /\ result_bytes' = resp.content)
      ]_vars

\* C10: with a blank api_key, or a (mode, model) pair outside the
\* allow-lists of the mode, no request is ever issued and the call ends in
\* the invalid-input error (ValueError) of that check.
C10_InvalidInputFailsFast ==
    (BlankKey \/ BadPair)
    => /\ NoRequestIssued
       /\ pc \in {"start", "submit", "done"}
       /\ (pc = "done"
             => outcome \in {"ValueError:api_key", "ValueError:combination"})

\* The generative and the standard allow-list of a mode, and their endpoints.
GenList(m) ==
    CASE m = "enhance" -> ENHANCE_GEN_MODELS
      [] m = "sharpen" -> SHARPEN_GEN_MODELS
      [] m = "restore" -> RESTORE_GEN_MODELS
      [] OTHER -> {}

StdList(m) ==
    CASE m = "enhance" -> ENHANCE_GAN_MODELS
      [] m = "sharpen" -> SHARPEN_GAN_MODELS
      [] m = "denoise" -> DENOISE_GAN_MODELS
      [] m = "lighting" -> LIGHTING_GAN_MODELS
      [] OTHER -> {}

GenEndpoint(m) ==
    CASE m = "enhance" -> "/enhance-gen/async"
      [] m = "sharpen" -> "/sharpen-gen/async"
      [] m = "denoise" -> "/denoise-gen/async"
      [] m = "restore" -> "/restore-gen/async"
      [] m = "lighting" -> "/lighting-gen/async"

StdEndpoint(m) ==
    CASE m = "enhance" -> "/enhance/async"
      [] m = "sharpen" -> "/sharpen/async"
      [] m = "denoise" -> "/denoise/async"
      [] m = "restore" -> "/restore/async"
      [] m = "lighting" -> "/lighting/async"

\* C11: for a mode of TOPAZ_MODES and a model of one of its allow-lists,
\* _submit_job resolves a path and posts to it: /<mode>-gen/async for a model
\* of the generative list, /<mode>/async for a model of the standard list;
\* no model is in both lists of a mode.
C11_RoutingIsTotal ==
    (mode \in TOPAZ_MODES /\ pc # "submit")
    => /\ GenList(mode) \cap StdList(mode) = {}
       /\ model \in GenList(mode)
          => (pc = "post_got" /\ path = GenEndpoint(mode))
       /\ model \in StdList(mode)
          => (pc = "post_got" /\ path = StdEndpoint(mode))

\* C11 witness: restore with Dust-Scratch was posted to the restore-gen path.
C11_Witness ==
    /\ mode = "restore" /\ model = "Dust-Scratch"
    /\ pc = "post_got" /\ path = "/restore-gen/async"

\* C12: after a 200 answer to the POST the job id is the body field
\* process_id when it is present and non-empty, otherwise (the field is
\* missing or empty, or the body is no record at all) the X-Process-ID
\* header; with neither the call raises and issues no status query and no
\* download; the id never changes afterwards and is the one in the URL of
\* every status query and download request.
C12_JobIdExtraction ==
    [][ /\ (pc = "post_got" /\ ~resp.exc /\ resp.code = 200)
           => LET id == IF resp.body_pid \notin {NoneVal, ""}
                        THEN resp.body_pid ELSE resp.header_pid
              IN IF id \in {NoneVal, ""}
                 THEN /\ pc' = "done"
                      /\ outcome' = "ValueError:no_process_id"
                      /\ process_id' = NoneVal
                      /\ nStatus' = 0 /\ nDl' = 0 /\ nFetch' = 0
                 ELSE process_id' = id /\ pc' = "wait"
        /\ (process_id # NoneVal => process_id' = process_id)
        /\ (nStatus' # nStatus => url = <<"/status/", process_id>>)
        /\ (nDl' # nDl => url = <<"/download/", process_id>>)
      ]_vars

\* round() of n/2, halves going to the even neighbour as Python's round does
RoundHalf(n) ==
    IF n % 2 = 0 THEN n \div 2
    ELSE IF (n \div 2) % 2 = 0 THEN n \div 2 ELSE (n \div 2) + 1

Clamp(x, lo, hi) == IF x < lo THEN lo ELSE IF x > hi THEN hi ELSE x

\* The size entry of params, 0 when the entry is absent.
Submitted(p, k) == IF k \in DOMAIN p THEN p[k] ELSE 0

\* C13: in mode enhance, with a multiplier m other than 1.0 the submitted
\* output_width and output_height are clamp(round(w*m), MinDim, MaxDim) and
\* clamp(round(h*m), MinDim, MaxDim), and with m = 1.0 they are the caller's
\* output_width and output_height.
C13_ScaledSizeIsRounded ==
    [][ (pc = "start" /\ pc' = "submit" /\ mode = "enhance")
        => IF scale2 = 2
           THEN /\ Submitted(params', "output_width") = output_width
                /\ Submitted(params', "output_height") = output_height
           ELSE /\ Submitted(params', "output_width")
                     = Clamp(RoundHalf(w * scale2), MinDim, MaxDim)
                /\ Submitted(params', "output_height")
                     = Clamp(RoundHalf(h * scale2), MinDim, MaxDim)
      ]_vars

\* C14: an error raised once the job id is known carries the job id.
C14_ErrorsCarryJobId ==
    (pc = "done" /\ process_id # NoneVal /\ outcome # "Returned")
    => \E i \in 1..Len(errMsg) : errMsg[i] = process_id

\* C15: a transport fault that leaves the run of consecutive faults below
\* the maximum does not end the call, and a successful status query, after
\* any number of faults, raises nothing and brings the count of consecutive
\* faults back to zero: a pending (or failed) answer is followed by the
\* sleep and the next iteration of the loop, a completed one by the download.
C15_SuccessResetsFaults ==
    [][ /\ (pc = "status_got" /\ resp.exc /\ faults + 1 < FaultBound)
           => (pc' = "wait" /\ outcome' = "none" /\ faults' = faults + 1)
        /\ (pc = "status_got" /\ StatusAnswered(resp))
           => /\ outcome' = "none" /\ faults' = 0
              /\ IF ReportsCompleted(resp) THEN pc' = "dl_loop"
                 ELSE pc' = "wait" /\ elapsed' = elapsed + PollSleep
        /\ (pc = "wait" /\ prevFaults > 0 /\ faults = 0 /\ elapsed < timeout)
           => (pc' = "status_got" /\ nStatus' = Inc(nStatus))
      ]_vars

\* C15 witness: FaultBound - 1 consecutive transport faults, then a status
\* query that is answered with a pending status.
C15_Witness ==
    /\ pc = "status_got" /\ faults = FaultBound - 1
    /\ ReportsPending(resp) /\ nStatus >= FaultBound

\* C16: a 404 answer to a status query raises nothing, counts as no fault,
\* and is followed by the 5 s sleep and the next iteration of the loop; a
\* call whose status queries were all answered 404 ends with TimeoutError,
\* raised once the deadline has passed.
C16_NotProvisionedIsPending ==
    [][ /\ (pc = "status_got" /\ ~resp.exc /\ resp.code = 404)
           => /\ pc' = "wait" /\ outcome' = "none" /\ faults' = 0
              /\ elapsed' = elapsed + NotProvisionedSleep
        /\ (pc' = "done" /\ all404' /\ nStatus' >= 1)
           => (outcome' = "TimeoutError" /\ elapsed >= timeout)
      ]_vars

\* C16 witness: three or more status queries, all answered 404, and the call
\* ended with TimeoutError.
C16_Witness ==
    pc = "done" /\ outcome = "TimeoutError" /\ all404 /\ nStatus >= 3

\* C17: a status answer whose value is "completed" in any letter case ends
\* the wait at that poll: the download follows, with no further status
\* query, no sleep and no error, and no status query is issued once an
\* answer reported completion.
C17_CompletedAnyCase ==
    [][ /\ (pc = "status_got" /\ ReportsCompleted(resp))
           => /\ pc' = "dl_loop" /\ outcome' = "none"
              /\ nStatus' = nStatus /\ attempt' = 0
        /\ (completedId # NoneVal => nStatus' = nStatus)
      ]_vars

\* C17 witness: the second status query is answered COMPLETED in upper case.
C17_Witness ==
    /\ pc = "status_got" /\ nStatus = 2
    /\ StatusAnswered(resp)
    /\ resp.status = <<"C", "O", "M", "P", "L", "E", "T", "E", "D">>

\* C18: the download endpoint is requested at most MaxAttempts times and a
\* secondary URL at most MaxAttempts times and never more often than the
\* endpoint; every retry, after a 409 or after an invalid content, uses up
\* one attempt of the same count, and the call raises the retries error
\* exactly when that count has reached MaxAttempts.
C18_SharedRetryBudget ==
    /\ nDl <= MaxAttempts /\ nFetch <= MaxAttempts /\ nFetch <= nDl
    /\ attempt <= MaxAttempts
    /\ (pc = "dl_loop" => nDl = attempt)
    /\ (pc \in {"download_got", "fetch_got"} => nDl = attempt + 1)
    /\ (outcome = "Exception:download_retries"
        => (nDl = MaxAttempts /\ attempt = MaxAttempts))

\* C18 witness: eight attempts, some ended by a 409 and some by an invalid
\* content, and the call raised without a ninth request.
C18_Witness ==
    /\ pc = "done" /\ outcome = "Exception:download_retries"
    /\ nDl = MaxAttempts /\ nFetch >= 1 /\ nFetch < MaxAttempts

\* C19: the timeout never changes, a status query is issued only while the
\* elapsed time is below the timeout, and TimeoutError is raised only at the
\* loop condition with the elapsed time at or above the timeout.
C19_DeadlineCheckedBetweenPolls ==
    [][ /\ timeout' = timeout
        /\ (pc' = "status_got" \/ nStatus' # nStatus)
           => (pc = "wait" /\ elapsed < timeout)
        /\ (outcome' = "TimeoutError" /\ outcome # "TimeoutError")
           => (pc = "wait" /\ elapsed >= timeout /\ elapsed' = elapsed)
      ]_vars

\* C19 witness: a query issued before the deadline is answered at or after
\* it, with a completed status, which the call accepts.
C19_Witness ==
    /\ pc = "status_got" /\ timeout > 0 /\ elapsed >= timeout
    /\ ReportsCompleted(resp)

\* C20: every call of process ends, with a result or with an error.
C20_Terminates == <>(pc = "done")

\* C20 witness: a call has ended after several status queries and several
\* download attempts.
C20_Witness ==
    pc = "done" /\ nPost = 1 /\ nStatus >= 3 /\ nDl >= 3 /\ nFetch >= 2

====
